---- MODULE Spec2Model ----
(***************************************************************************)
(* Model of the skin-weight utilities of maya_utils (src/skinning.py):     *)
(* the pure function normalize and the SkinInfo store together with the    *)
(* part of the host scene (joints, the mesh's skinCluster, one snapshot    *)
(* file) that its methods read and write.                                  *)
(*                                                                         *)
(* Weights are Python floats in the source.  They are modelled as exact    *)
(* rationals <<numerator, denominator>> in lowest terms, so that equality  *)
(* of two weights is equality of the pairs; rounding is not modelled.      *)
(***************************************************************************)
EXTENDS Integers, Sequences, FiniteSets, TLC

\* ------------------------------------------------------------------ bounds
\* normalize is checked on every vector of 1..NormMaxLen entries drawn from
\* the grid 0/NormDen, 1/NormDen, ..., NormMaxNum/NormDen.
NormMaxLen == 3
NormMaxNum == 14
NormDen == 10
\* the mesh has NumVertices vertices, numbered from 0
NumVertices == 2
\* depth at which Python stops a recursion with RecursionError
RecursionLimit == 3
\* joint placement: the most joints placed before a finish, and the most
\* placement sessions
MaxPlaced == 2
MaxSessions == 3
\* pynode: the most scene nodes that share the requested name
MaxCandidates == 3
\* is_empty_group: the most children of a node
MaxChildren == 2
\* get_all_inputs, get_all_outputs: the nodes of the connection graph
GraphNodes == 3
\* ListNewNodes: the nodes a with-block can create
MaxNew == 4

\* ------------------------------------------------------- exact arithmetic
Abs(x) == IF x < 0 THEN -x ELSE x

RECURSIVE GCD(_, _)
GCD(a, b) == IF b = 0 THEN a ELSE GCD(b, a % b)

\* the rational n/d (d # 0) in lowest terms with a positive denominator
Rat(n, d) ==
    LET s == IF d < 0 THEN -1 ELSE 1
        g == GCD(Abs(n), Abs(d))
    IN  <<(s * n) \div g, (s * d) \div g>>

Zero == <<0, 1>>
One == <<1, 1>>

RAdd(p, q) == Rat(p[1] * q[2] + q[1] * p[2], p[2] * q[2])
RSub(p, q) == Rat(p[1] * q[2] - q[1] * p[2], p[2] * q[2])
RMul(p, q) == Rat(p[1] * q[1], p[2] * q[2])
\* p / q, q # 0
RDiv(p, q) == Rat(p[1] * q[2], p[2] * q[1])
RLess(p, q) == p[1] * q[2] < q[1] * p[2]
RLeq(p, q) == p[1] * q[2] <= q[1] * p[2]

\* Python's sum() of a list of floats
RECURSIVE RSum(_)
RSum(s) == IF s = << >> THEN Zero ELSE RAdd(Head(s), RSum(Tail(s)))

\* ------------------------------------------------------------- normalize
\* src/skinning.py:263-278.  unchanged_index is the 0-based Python index.
normalize_scales_fixed(values, unchanged_index) ==
    LET remaining == RSub(One, values[unchanged_index + 1])
        total_except_remaining == RSub(RSum(values), values[unchanged_index + 1])
    IN  IF total_except_remaining # Zero
        THEN [idx \in 1..Len(values) |->
                RDiv(RMul(values[idx], remaining), total_except_remaining)]
        ELSE [idx \in 1..Len(values) |-> RMul(values[idx], remaining)]

normalize_by_full_total(values, unchanged_index) ==
    LET remaining == RSub(One, values[unchanged_index + 1])
        total == RSum(values)
    IN  IF total # Zero
        THEN [idx \in 1..Len(values) |->
                IF idx # unchanged_index + 1
                THEN RDiv(RMul(values[idx], remaining), total)
                ELSE values[idx]]
        ELSE [idx \in 1..Len(values) |->
                IF idx # unchanged_index + 1
                THEN RMul(values[idx], remaining)
                ELSE values[idx]]

normalize_uniform_spread(values, unchanged_index) ==
    LET remaining == RSub(One, values[unchanged_index + 1])
        total_except_remaining == RSub(RSum(values), values[unchanged_index + 1])
    IN  IF total_except_remaining # Zero
        THEN [idx \in 1..Len(values) |->
                IF idx # unchanged_index + 1
                THEN RDiv(RMul(values[idx], remaining), total_except_remaining)
                ELSE values[idx]]
        ELSE [idx \in 1..Len(values) |->
                IF idx # unchanged_index + 1
                THEN RDiv(remaining, <<Len(values), 1>>)
                ELSE values[idx]]

normalize_first_only(values, unchanged_index) ==
    LET remaining == RSub(One, values[unchanged_index + 1])
        total_except_remaining == RSub(RSum(values), values[unchanged_index + 1])
        first == IF unchanged_index = 0 THEN 2 ELSE 1
    IN  IF total_except_remaining # Zero
        THEN [idx \in 1..Len(values) |->
                IF idx = unchanged_index + 1 THEN values[idx]
                ELSE IF idx = first
                     THEN RDiv(RMul(values[idx], remaining), total_except_remaining)
                     ELSE RMul(values[idx], remaining)]
        ELSE [idx \in 1..Len(values) |->
                IF idx # unchanged_index + 1
                THEN RMul(values[idx], remaining)
                ELSE values[idx]]

normalize_abs_remaining(values, unchanged_index) ==
    LET remaining == RSub(values[unchanged_index + 1], One)
        total_except_remaining == RSub(RSum(values), values[unchanged_index + 1])
    IN  IF total_except_remaining # Zero
        THEN [idx \in 1..Len(values) |->
                IF idx # unchanged_index + 1
                THEN RDiv(RMul(values[idx], remaining), total_except_remaining)
                ELSE values[idx]]
        ELSE [idx \in 1..Len(values) |->
                IF idx # unchanged_index + 1
                THEN RMul(values[idx], remaining)
                ELSE values[idx]]

normalize(values, unchanged_index) ==
    LET remaining == RSub(One, values[unchanged_index + 1])
        total_except_remaining == RSub(RSum(values), values[unchanged_index + 1])
    IN  IF total_except_remaining # Zero
        THEN [idx \in 1..Len(values) |->
                IF idx # unchanged_index + 1
                THEN RDiv(RMul(values[idx], remaining), total_except_remaining)
                ELSE values[idx]]
        ELSE [idx \in 1..Len(values) |->
                IF idx # unchanged_index + 1
                THEN RMul(values[idx], remaining)
                ELSE values[idx]]

\* ------------------------------------------------------------ host scene
\* every joint name that can exist in the scene
Joints == {"joint1", "joint2"}

\* pm.ls() lists the joints of the scene in this order
JointOrder == <<"joint1", "joint2">>

Vertices == 0..(NumVertices - 1)

\* str(vertex_index), the keys of weight_dict (src/skinning.py:582)
StrTable == <<"0", "1", "2", "3", "4", "5", "6", "7">>
Str(i) == StrTable[i + 1]
VertexKeys == {Str(v) : v \in Vertices}
VertexOfKey(k) == CHOOSE v \in Vertices : Str(v) = k

mesh_name == "mesh"
vertex_positions == [i \in 1..NumVertices |-> <<i - 1, 0, 0>>]

Range(f) == {f[i] : i \in DOMAIN f}

\* the rows of an unbound mesh
NoWeights == [v \in Vertices |-> << >>]

\* pm.skinCluster(joints, mesh, toSelectedBones=True): the host binds every
\* vertex to its closest joint; the geometry is fixed so that vertex v is
\* closest to the (v mod n)-th of the n joints.
BindWeights(n) ==
    [v \in Vertices |-> [i \in 1..n |-> IF i = (v % n) + 1 THEN One ELSE Zero]]

\* skinCluster -e -forceNormalizeWeights: every row is scaled to sum 1 (a
\* row of zeros has nothing to scale)
ForceNormalizeRow(row) ==
    LET total == RSum(row)
    IN  IF total = Zero THEN row
        ELSE [i \in 1..Len(row) |-> RDiv(row[i], total)]

\* ------------------------------------------------------------ dictionaries
EmptyDict == [k \in {} |-> 0]

HasKey(d, k) == k \in DOMAIN d

DictKeyOrder ==
    <<"weight_dict", "mesh_name", "vertex_positions", "influence_list", "influence_names">>

\* io_utils.write_pickle / read_pickle: the object itself is stored
write_pickle(d) == [kind |-> "pickle", obj |-> d]
read_pickle(f) == f.obj

\* io_utils.write_json: a JSON object is the list of its members, in
\* insertion order; weight_dict is itself an object keyed by the strings
write_json(d) ==
    LET present == SelectSeq(DictKeyOrder, LAMBDA k : HasKey(d, k))
        member(k) ==
            IF k = "weight_dict"
            THEN <<k, [i \in 1..NumVertices |-> <<Str(i - 1), d[k][Str(i - 1)]>>]>>
            ELSE <<k, d[k]>>
    IN  [kind |-> "json", doc |-> [i \in 1..Len(present) |-> member(present[i])]]

\* io_utils.read_json(ordered_dict=True): the object rebuilt from its members
read_json(f) ==
    LET doc == f.doc
        keys == {doc[i][1] : i \in 1..Len(doc)}
        at(k) == doc[CHOOSE i \in 1..Len(doc) : doc[i][1] = k][2]
        object(members) ==
            [k \in {members[i][1] : i \in 1..Len(members)} |->
                members[CHOOSE i \in 1..Len(members) : members[i][1] = k][2]]
    IN  [k \in keys |-> IF k = "weight_dict" THEN object(at(k)) ELSE at(k)]

NoFile == [kind |-> "none"]

\* the values a call returns: None, an int or a list
NoReturn == [kind |-> "None"]
ReturnInt(i) == [kind |-> "int", val |-> i]
ReturnList(l) == [kind |-> "list", val |-> l]

\* the mutations a call asks of the host are logged in the order it makes them
HostCall(op, arg) == [op |-> op, arg |-> arg]

\* ------------------------------------------------------------------ state
VARIABLES
    nz_values,      \* normalize: the argument values
    nz_index,       \* normalize: the argument unchanged_index
    nz_result,      \* normalize: the returned list (<< >> before the call)
    nz_returned,    \* normalize: TRUE once the call has returned
    scene_joints,   \* host: the joints that exist in the scene
    sc_bound,       \* host: the mesh has a skinCluster
    sc_influences,  \* host: the skinCluster's influences, in order
    sc_weights,     \* host: the skinCluster's weights, one row per vertex
    liw,            \* host: the joints whose lockInfluenceWeights is on
    constructed,    \* a SkinInfo object exists
    skin_cluster,   \* self.skin_cluster: "None", "live" or "deleted" node
    influence_list, \* self.influence_list
    skin_info_dict, \* self.skin_info_dict
    file,           \* the snapshot file
    last_call,      \* the operation called last
    raised,         \* the exception that call raised, "" when it returned
    returned,       \* the value that call returned
    host_log,       \* the host calls that call made, in order
    placed_joints,  \* the module-level list placed_joints
    first_clicked_mesh, \* pm.optionVar["JointPlacer_FirstClickedMesh"]
    post_creation_func, \* the callback bound into the dragger context
    tool_active,    \* the dragger context placer_ctx is the current tool
    session,        \* number of the placement session under way
    chains,         \* host: the joint chains parented by a finish
    handed,         \* the arguments post_creation_func was called with
    arguments       \* the arguments, and the scene they name, of a function
                    \* of general.py or decorators.py under call

normvars == <<nz_values, nz_index, nz_result, nz_returned>>
hostvars == <<scene_joints, sc_bound, sc_influences, sc_weights, liw>>
selfvars == <<constructed, skin_cluster, influence_list, skin_info_dict>>
placevars == <<placed_joints, first_clicked_mesh, post_creation_func, tool_active,
               session, chains, handed>>
vars == <<normvars, hostvars, selfvars, file, last_call, raised, returned, host_log,
          placevars, arguments>>

\* ------------------------------------------------- SkinInfo, as functions
\* The methods of SkinInfo are functions of a record s holding the host's
\* binding of the mesh (bound, influences, weights), the object's attributes
\* (skin_cluster, influence_list, skin_info_dict), the exception raised, the
\* value returned and the log of the host calls made.
Current ==
    [bound |-> sc_bound, influences |-> sc_influences, weights |-> sc_weights,
     liw |-> liw,
     skin_cluster |-> skin_cluster, influence_list |-> influence_list,
     skin_info_dict |-> skin_info_dict, raised |-> "", returned |-> NoReturn,
     log |-> << >>]

Raise(s, e) == [s EXCEPT !.raised = e]

\* calling a method of self.skin_cluster when it is None or a deleted node
NodeError(ref) == IF ref = "None" THEN "AttributeError" ELSE "MayaNodeError"

get_skin_cluster_from_mesh(s) == IF s.bound THEN "live" ELSE "None"

is_skinned(s) == get_skin_cluster_from_mesh(s) # "None"

get_influence_list(s) ==
    IF is_skinned(s) THEN [x \in 1..Len(s.influences) |-> x - 1] ELSE << >>

get_skin_info_dict(s) ==
    IF is_skinned(s)
    THEN [weight_dict |-> [k \in VertexKeys |-> s.weights[VertexOfKey(k)]],
          mesh_name |-> mesh_name,
          vertex_positions |-> vertex_positions,
          influence_list |-> s.influence_list,
          influence_names |-> s.influences]
    ELSE EmptyDict

reinitialize_requires_binding(s) ==
    IF ~is_skinned(s) THEN Raise(s, "RuntimeError")
    ELSE LET s1 == [s EXCEPT !.skin_cluster = get_skin_cluster_from_mesh(s)]
             s2 == [s1 EXCEPT !.influence_list = get_influence_list(s1)]
         IN  [s2 EXCEPT !.skin_info_dict = get_skin_info_dict(s2)]

reinitialize(s) ==
    LET s1 == [s EXCEPT !.skin_cluster = get_skin_cluster_from_mesh(s)]
        s2 == [s1 EXCEPT !.influence_list = get_influence_list(s1)]
    IN  [s2 EXCEPT !.skin_info_dict = get_skin_info_dict(s2)]

\* The elements of the list get_complete_weights_list returns are floats or,
\* for a vertex whose list has fewer than 2 entries, that list itself.
Float(x) == [kind |-> "float", val |-> x]
Nested(l) == [kind |-> "list", val |-> l]

RECURSIVE ExtendFrom(_, _)
ExtendFrom(weight_dict, v) ==
    IF v >= NumVertices THEN << >>
    ELSE LET influence_values == weight_dict[Str(v)]
             extension == IF Len(influence_values) < 2
                          THEN <<Nested(influence_values)>>
                          ELSE [i \in 1..Len(influence_values) |->
                                    Float(influence_values[i])]
         IN  extension \o ExtendFrom(weight_dict, v + 1)

\* only called on a skin_info_dict that has a weight_dict
get_complete_weights_list(s) == ExtendFrom(s.skin_info_dict.weight_dict, 0)

\* skin_cluster.setWeights(mesh, influence_list, weights_list): the host takes
\* a flat list of floats, one per vertex and listed influence
HostSetWeights(s, weights_list) ==
    LET n == Len(s.influence_list)
    IN  [v \in Vertices |->
            [i \in 1..Len(s.influences) |->
                IF \E c \in 1..n : s.influence_list[c] = i - 1
                THEN weights_list[v * n +
                        (CHOOSE c \in 1..n : s.influence_list[c] = i - 1)].val
                ELSE s.weights[v][i]]]

set_weights_skips_reinitialize(s, weights_list, normalize_flag) ==
    IF s.skin_cluster # "live" THEN Raise(s, NodeError(s.skin_cluster))
    ELSE IF \E i \in 1..Len(weights_list) : weights_list[i].kind # "float"
    THEN Raise(s, "TypeError")
    ELSE IF \/ Len(weights_list) # NumVertices * Len(s.influence_list)
            \/ \E c \in 1..Len(s.influence_list) :
                    s.influence_list[c] >= Len(s.influences)
    THEN Raise(s, "RuntimeError")
    ELSE LET written == HostSetWeights(s, weights_list)
             s1 == [s EXCEPT !.weights = written,
                             !.log = Append(@, HostCall("setWeights", weights_list))]
             s2 == IF normalize_flag
                   THEN [s1 EXCEPT
                            !.weights = [v \in Vertices |-> ForceNormalizeRow(written[v])],
                            !.log = Append(@, HostCall("forceNormalizeWeights", << >>))]
                   ELSE s1
         IN  s2

set_weights_never_forces(s, weights_list, normalize_flag) ==
    IF s.skin_cluster # "live" THEN Raise(s, NodeError(s.skin_cluster))
    ELSE IF \E i \in 1..Len(weights_list) : weights_list[i].kind # "float"
    THEN Raise(s, "TypeError")
    ELSE IF \/ Len(weights_list) # NumVertices * Len(s.influence_list)
            \/ \E c \in 1..Len(s.influence_list) :
                    s.influence_list[c] >= Len(s.influences)
    THEN Raise(s, "RuntimeError")
    ELSE LET written == HostSetWeights(s, weights_list)
             s1 == [s EXCEPT !.weights = written,
                             !.log = Append(@, HostCall("setWeights", weights_list))]
             s2 == s1
         IN  reinitialize(s2)

set_weights(s, weights_list, normalize_flag) ==
    IF s.skin_cluster # "live" THEN Raise(s, NodeError(s.skin_cluster))
    ELSE IF \E i \in 1..Len(weights_list) : weights_list[i].kind # "float"
    THEN Raise(s, "TypeError")
    ELSE IF \/ Len(weights_list) # NumVertices * Len(s.influence_list)
            \/ \E c \in 1..Len(s.influence_list) :
                    s.influence_list[c] >= Len(s.influences)
    THEN Raise(s, "RuntimeError")
    ELSE LET written == HostSetWeights(s, weights_list)
             s1 == [s EXCEPT !.weights = written,
                             !.log = Append(@, HostCall("setWeights", weights_list))]
             s2 == IF normalize_flag
                   THEN [s1 EXCEPT
                            !.weights = [v \in Vertices |-> ForceNormalizeRow(written[v])],
                            !.log = Append(@, HostCall("forceNormalizeWeights", << >>))]
                   ELSE s1
         IN  reinitialize(s2)

\* pm.skinCluster(skin_cluster, edit=True, addInfluence=joint, weight=weight,
\* lockWeights=lockWeights): the joint becomes the last influence
AddInfluence(s, joint, weight, lockWeights) ==
    [s EXCEPT !.influences = Append(s.influences, joint),
              !.weights = [v \in Vertices |-> Append(s.weights[v], weight)],
              !.liw = IF lockWeights THEN @ \cup {joint} ELSE @ \ {joint},
              !.log = Append(@, HostCall("addInfluence", joint))]

\* pm.setAttr("%s.liw" % joint, value)
SetLiw(s, joint, value) ==
    [s EXCEPT !.liw = IF value THEN @ \cup {joint} ELSE @ \ {joint},
              !.log = Append(@, HostCall("setAttr liw", joint))]

add_joint_to_skin_cluster_keeps_lock(s, joint) ==
    IF joint \in Range(s.influences) THEN s
    ELSE AddInfluence(s, joint, Zero, TRUE)

\* add_joint_to_skin_cluster on a live skinCluster
add_joint_to_skin_cluster(s, joint) ==
    IF joint \in Range(s.influences) THEN s
    ELSE SetLiw(AddInfluence(s, joint, Zero, TRUE), joint, FALSE)

\* list.index(joint), counting from 0
IndexOf(list, x) == (CHOOSE i \in 1..Len(list) : list[i] = x) - 1

get_index_of_joint_counts_influences(s, joint) ==
    IF joint \notin scene_joints THEN Raise(s, "MayaNodeError")
    ELSE IF s.skin_cluster # "live" THEN Raise(s, NodeError(s.skin_cluster))
    ELSE IF joint \in Range(s.influences)
    THEN [s EXCEPT !.returned = ReturnInt(IndexOf(s.influences, joint))]
    ELSE LET s1 == reinitialize(add_joint_to_skin_cluster(s, joint))
         IN  [s1 EXCEPT !.returned = ReturnInt(Len(s1.influences))]

get_index_of_joint(s, joint) ==
    IF joint \notin scene_joints THEN Raise(s, "MayaNodeError")
    ELSE IF s.skin_cluster # "live" THEN Raise(s, NodeError(s.skin_cluster))
    ELSE LET s1 == IF joint \in Range(s.influences) THEN s
                   ELSE reinitialize(add_joint_to_skin_cluster(s, joint))
         IN  [s1 EXCEPT !.returned = ReturnInt(IndexOf(s1.influences, joint))]

\* method form of get_complete_weights_list: the list is the value returned
GetCompleteWeightsListCall(s) ==
    IF ~HasKey(s.skin_info_dict, "weight_dict") THEN Raise(s, "AttributeError")
    ELSE [s EXCEPT !.returned = ReturnList(get_complete_weights_list(s))]

get_weight_list_of_vertex(s, vertex_number) ==
    IF ~HasKey(s.skin_info_dict, "weight_dict") THEN Raise(s, "AttributeError")
    ELSE [s EXCEPT !.returned =
                ReturnList(s.skin_info_dict.weight_dict[Str(vertex_number)])]

set_weights_list_of_vertex(s, vertex_number, weight_list) ==
    IF ~HasKey(s.skin_info_dict, "weight_dict") THEN Raise(s, "TypeError")
    ELSE [s EXCEPT !.skin_info_dict.weight_dict[Str(vertex_number)] = weight_list]

save_skin_to_file(s, binary) ==
    IF binary THEN write_pickle(s.skin_info_dict) ELSE write_json(s.skin_info_dict)

\* pm.skinCluster(mesh, unbind=True, edit=True)
Unbind(s) ==
    [s EXCEPT !.bound = FALSE, !.influences = << >>, !.weights = NoWeights,
              !.skin_cluster = IF @ = "live" THEN "deleted" ELSE @,
              !.log = Append(@, HostCall("unbind", << >>))]

\* the part of load_skin_from_file run when the mesh is not skinned
CreateSkinCluster(s) ==
    LET names == IF HasKey(s.skin_info_dict, "influence_names")
                 THEN s.skin_info_dict.influence_names
                 ELSE SelectSeq(JointOrder, LAMBDA j : j \in scene_joints)
    IN  IF names = << >> THEN Raise(s, "RuntimeError")
        ELSE IF ~(Range(names) \subseteq scene_joints) THEN Raise(s, "MayaNodeError")
        ELSE LET s1 == [s EXCEPT !.bound = TRUE, !.influences = names,
                                 !.weights = BindWeights(Len(names)),
                                 !.skin_cluster = "live",
                                 !.log = Append(@, HostCall("bind", names))]
             IN  [s1 EXCEPT !.influence_list = get_influence_list(s1)]

CommitLoaded_without_set_weights(s) ==
    IF ~HasKey(s.skin_info_dict, "weight_dict") THEN Raise(s, "AttributeError")
    ELSE s

\* self.set_weights(self.get_complete_weights_list()), the last statement of
\* load_skin_from_file
CommitLoaded(s) ==
    IF ~HasKey(s.skin_info_dict, "weight_dict") THEN Raise(s, "AttributeError")
    ELSE set_weights(s, get_complete_weights_list(s), TRUE)

load_skin_from_file_without_rebuild(s, binary, depth) ==
    IF file.kind = "none" THEN Raise(s, "IOError")
    ELSE IF binary # (file.kind = "pickle") THEN Raise(s, "DecodeError")
    ELSE
    LET s1 == [s EXCEPT !.skin_info_dict =
                    IF binary THEN read_pickle(file) ELSE read_json(file),
                        !.log = Append(@, HostCall("load_skin_from_file", depth))]
        s2 == IF ~is_skinned(s1) THEN CreateSkinCluster(s1) ELSE s1
    IN  IF s2.raised # "" THEN s2
        ELSE IF s2.skin_cluster # "live" THEN Raise(s2, NodeError(s2.skin_cluster))
        ELSE CommitLoaded(s2)

RECURSIVE load_skin_from_file(_, _, _)
load_skin_from_file(s, binary, depth) ==
    IF depth > RecursionLimit
    THEN Raise([s EXCEPT !.log = Append(@, HostCall("load_skin_from_file", depth))],
               "RecursionError")
    ELSE IF file.kind = "none" THEN Raise(s, "IOError")
    ELSE IF binary # (file.kind = "pickle") THEN Raise(s, "DecodeError")
    ELSE
    LET s1 == [s EXCEPT !.skin_info_dict =
                    IF binary THEN read_pickle(file) ELSE read_json(file),
                        !.log = Append(@, HostCall("load_skin_from_file", depth))]
        s2 == IF ~is_skinned(s1) THEN CreateSkinCluster(s1) ELSE s1
    IN  IF s2.raised # "" THEN s2
        ELSE IF s2.skin_cluster # "live" THEN Raise(s2, NodeError(s2.skin_cluster))
        ELSE IF \/ ~HasKey(s2.skin_info_dict, "influence_names")
                \/ s2.influences # s2.skin_info_dict.influence_names
        THEN LET s3 == load_skin_from_file(Unbind(s2), binary, depth + 1)
             IN  IF s3.raised # "" THEN s3 ELSE CommitLoaded(s3)
        ELSE CommitLoaded(s2)

\* ---------------------------------------------------------------- actions
StoreInit ==
    /\ scene_joints = Joints
    /\ sc_bound = FALSE
    /\ sc_influences = << >>
    /\ sc_weights = NoWeights
    /\ liw = {}
    /\ constructed = FALSE
    /\ skin_cluster = "None"
    /\ influence_list = << >>
    /\ skin_info_dict = EmptyDict
    /\ file = NoFile
    /\ last_call = ""
    /\ raised = ""
    /\ returned = NoReturn
    /\ host_log = << >>

\* no function of general.py or decorators.py is under call
NoArguments == [function |-> "None"]

\* the module as imported: placed_joints = [], no dragger context yet
PlaceIdle ==
    /\ placed_joints = << >>
    /\ post_creation_func = "None"
    /\ tool_active = FALSE
    /\ session = 0
    /\ chains = << >>
    /\ handed = << >>

\* the variables take the values of the record a method returns
Becomes(s, call) ==
    /\ sc_bound' = s.bound
    /\ sc_influences' = s.influences
    /\ sc_weights' = s.weights
    /\ liw' = s.liw
    /\ skin_cluster' = s.skin_cluster
    /\ influence_list' = s.influence_list
    /\ skin_info_dict' = s.skin_info_dict
    /\ raised' = s.raised
    /\ returned' = s.returned
    /\ host_log' = s.log
    /\ last_call' = call

JointLists ==
    {js \in UNION {[1..n -> scene_joints] : n \in 1..Cardinality(scene_joints)} :
        \A a, b \in 1..Len(js) : a # b => js[a] # js[b]}

\* set_weights_list_of_vertex is called on the vertices EditedVertices with
\* the lists WeightLists: every list of weights 0.0 and 1.0 that has at most
\* as many entries as there are joints, so shorter, longer and unnormalized
\* lists are among them.  The other vertices keep the rows the host gives them.
EditedVertices == {0}

WeightLists ==
    UNION {[1..n -> {Zero, One}] : n \in 1..Cardinality(Joints)}

\* pm.skinCluster(joints, mesh, toSelectedBones=True) on an unskinned mesh
HostBind(js) ==
    /\ ~sc_bound
    /\ sc_bound' = TRUE
    /\ sc_influences' = js
    /\ sc_weights' = BindWeights(Len(js))
    /\ last_call' = "host"
    /\ raised' = ""
    /\ returned' = NoReturn
    /\ host_log' = << >>
    /\ UNCHANGED <<normvars, placevars, arguments, scene_joints, liw, selfvars, file>>

\* pm.mel.DetachSkin()
HostDetach ==
    /\ sc_bound
    /\ sc_bound' = FALSE
    /\ sc_influences' = << >>
    /\ sc_weights' = NoWeights
    /\ skin_cluster' = IF skin_cluster = "live" THEN "deleted" ELSE skin_cluster
    /\ last_call' = "host"
    /\ raised' = ""
    /\ returned' = NoReturn
    /\ host_log' = << >>
    /\ UNCHANGED <<normvars, placevars, arguments, scene_joints, liw, constructed, influence_list,
                   skin_info_dict, file>>

\* a joint that influences nothing is deleted from the scene
HostDeleteJoint(j) ==
    /\ j \in scene_joints
    /\ j \notin Range(sc_influences)
    /\ scene_joints' = scene_joints \ {j}
    /\ last_call' = "host"
    /\ raised' = ""
    /\ returned' = NoReturn
    /\ host_log' = << >>
    /\ UNCHANGED <<normvars, placevars, arguments, sc_bound, sc_influences, sc_weights, liw, selfvars, file>>

\* pm.createNode("joint")
HostCreateJoint(j) ==
    /\ j \notin scene_joints
    /\ scene_joints' = scene_joints \cup {j}
    /\ last_call' = "host"
    /\ raised' = ""
    /\ returned' = NoReturn
    /\ host_log' = << >>
    /\ UNCHANGED <<normvars, placevars, arguments, sc_bound, sc_influences, sc_weights, liw, selfvars, file>>

\* SkinInfo(mesh)
Construct ==
    /\ constructed' = TRUE
    /\ Becomes(reinitialize(Current), "SkinInfo")
    /\ UNCHANGED <<normvars, placevars, arguments, scene_joints, file>>

SetWeightsListOfVertex(vertex_number, weight_list) ==
    /\ constructed
    /\ Becomes(set_weights_list_of_vertex(Current, vertex_number, weight_list),
               "set_weights_list_of_vertex")
    /\ UNCHANGED <<normvars, placevars, arguments, scene_joints, constructed, file>>

\* skin_info.set_weights(skin_info.get_complete_weights_list(), normalize)
SetWeights(normalize_flag) ==
    /\ constructed
    /\ Becomes(IF HasKey(skin_info_dict, "weight_dict")
               THEN set_weights(Current, get_complete_weights_list(Current), normalize_flag)
               ELSE Raise(Current, "AttributeError"),
               "set_weights")
    /\ UNCHANGED <<normvars, placevars, arguments, scene_joints, constructed, file>>

GetIndexOfJoint(joint) ==
    /\ constructed
    /\ Becomes(get_index_of_joint(Current, joint), "get_index_of_joint")
    /\ UNCHANGED <<normvars, placevars, arguments, scene_joints, constructed, file>>

SaveSkinToFile(binary) ==
    /\ constructed
    /\ file' = save_skin_to_file(Current, binary)
    /\ last_call' = "save_skin_to_file"
    /\ raised' = ""
    /\ returned' = NoReturn
    /\ host_log' = << >>
    /\ UNCHANGED <<normvars, placevars, arguments, hostvars, selfvars>>

LoadSkinFromFile(binary) ==
    /\ constructed
    /\ Becomes(load_skin_from_file(Current, binary, 1), "load_skin_from_file")
    /\ UNCHANGED <<normvars, placevars, arguments, scene_joints, constructed, file>>

Next ==
    \/ \E js \in JointLists : HostBind(js)
    \/ HostDetach
    \/ \E j \in Joints : HostDeleteJoint(j)
    \/ \E j \in Joints : HostCreateJoint(j)
    \/ Construct
    \/ \E v \in EditedVertices, wl \in WeightLists : SetWeightsListOfVertex(v, wl)
    \/ \E normalize_flag \in BOOLEAN : SetWeights(normalize_flag)
    \/ \E joint \in Joints : GetIndexOfJoint(joint)
    \/ \E binary \in BOOLEAN : SaveSkinToFile(binary)
    \/ \E binary \in BOOLEAN : LoadSkinFromFile(binary)

\* setAttr joint.liw: the user locks or unlocks the weights of a joint
HostSetLiw(j, value) ==
    /\ j \in scene_joints
    /\ (j \in liw) # value
    /\ liw' = IF value THEN liw \cup {j} ELSE liw \ {j}
    /\ last_call' = "host"
    /\ raised' = ""
    /\ returned' = NoReturn
    /\ host_log' = << >>
    /\ UNCHANGED <<normvars, placevars, arguments, scene_joints, sc_bound, sc_influences, sc_weights,
                   selfvars, file>>

GetCompleteWeightsList ==
    /\ constructed
    /\ Becomes(GetCompleteWeightsListCall(Current), "get_complete_weights_list")
    /\ UNCHANGED <<normvars, placevars, arguments, scene_joints, constructed, file>>

GetWeightListOfVertex(vertex_number) ==
    /\ constructed
    /\ Becomes(get_weight_list_of_vertex(Current, vertex_number),
               "get_weight_list_of_vertex")
    /\ UNCHANGED <<normvars, placevars, arguments, scene_joints, constructed, file>>

\* the store used on its own: edits, commits and queries of one SkinInfo
\* while the user binds and detaches the mesh and locks joints
NextStore ==
    \/ \E js \in JointLists : HostBind(js)
    \/ HostDetach
    \/ \E j \in Joints, value \in BOOLEAN : HostSetLiw(j, value)
    \/ Construct
    \/ \E v \in EditedVertices, wl \in WeightLists : SetWeightsListOfVertex(v, wl)
    \/ \E normalize_flag \in BOOLEAN : SetWeights(normalize_flag)
    \/ \E joint \in Joints : GetIndexOfJoint(joint)
    \/ GetCompleteWeightsList
    \/ \E v \in Vertices : GetWeightListOfVertex(v)

StoreInitNorm ==
    /\ nz_values = << >>
    /\ nz_index = 0
    /\ nz_result = << >>
    /\ nz_returned = FALSE

Init ==
    /\ StoreInitNorm /\ StoreInit /\ PlaceIdle /\ first_clicked_mesh = ""
    /\ arguments = NoArguments

Spec == Init /\ [][Next]_vars

SpecStore == Init /\ [][NextStore]_vars

\* ------------------------- specification: the store's influence operations
\* "%s.vtx[%s]" % (self.mesh.name(), number)
VtxTable == <<"mesh.vtx[0]", "mesh.vtx[1]", "mesh.vtx[2]", "mesh.vtx[3]",
              "mesh.vtx[4]", "mesh.vtx[5]", "mesh.vtx[6]", "mesh.vtx[7]">>
VtxName(number) == VtxTable[number + 1]

\* a returned list of vertex names (ReturnList is a list of numbers)
ReturnNames(l) == [kind |-> "list", of |-> "str", val |-> l]

\* the argument joints: one joint, or a list of joints
OneJoint(joint) == [kind |-> "joint", val |-> joint]
JointList(joints) == [kind |-> "list", val |-> joints]
JointArguments ==
    {OneJoint(j) : j \in Joints} \cup {JointList(js) : js \in JointLists}

\* the value of an expression, worked out once and then named: Only({e(x) : x \in {d}})
Only(S) == CHOOSE x \in S : TRUE

\* for joint in joints: joint_indices.append(self.get_index_of_joint(joint))
RECURSIVE CollectIndices(_, _, _)
CollectIndices(s, joints, joint_indices) ==
    IF joints = << >> THEN [s EXCEPT !.returned = ReturnList(joint_indices)]
    ELSE Only({IF s1.raised # "" THEN [s1 EXCEPT !.returned = NoReturn]
               ELSE CollectIndices(s1, Tail(joints),
                                   Append(joint_indices, s1.returned.val))
               : s1 \in {get_index_of_joint(s, Head(joints))}})

\* for joint_index in joint_indices: if weights[joint_index] > 0: append
RECURSIVE AppendPerIndex(_, _, _)
AppendPerIndex(weights, joint_indices, vertex) ==
    IF joint_indices = << >> THEN << >>
    ELSE (IF RLess(Zero, weights[Head(joint_indices) + 1]) THEN <<vertex>> ELSE << >>)
         \o AppendPerIndex(weights, Tail(joint_indices), vertex)

\* for vertex, weights in weight_dict.items(): the keys are in vertex order
RECURSIVE InfluencedFrom(_, _, _)
InfluencedFrom(weight_dict, joint_indices, v) ==
    IF v >= NumVertices THEN << >>
    ELSE AppendPerIndex(weight_dict[Str(v)], joint_indices, v)
         \o InfluencedFrom(weight_dict, joint_indices, v + 1)

\* the part of get_vertices_influenced_by after the loop over joints
ListInfluenced(s1, return_full_vertex_name, return_numbers) ==
    LET joint_indices == s1.returned.val
        s2 == [s1 EXCEPT !.returned = NoReturn]
    IN  IF ~HasKey(s1.skin_info_dict, "weight_dict")
        THEN Raise(s2, "AttributeError")
        ELSE IF \E v \in Vertices, c \in 1..Len(joint_indices) :
                    joint_indices[c] >= Len(s1.skin_info_dict.weight_dict[Str(v)])
        THEN Raise(s2, "IndexError")
        ELSE IF return_full_vertex_name
        THEN Only({[s2 EXCEPT !.returned =
                        ReturnNames([i \in 1..Len(influenced_vertices) |->
                                        VtxName(influenced_vertices[i])])]
                   : influenced_vertices \in
                        {InfluencedFrom(s1.skin_info_dict.weight_dict, joint_indices, 0)}})
        ELSE IF return_numbers
        THEN [s2 EXCEPT !.returned =
                ReturnList(InfluencedFrom(s1.skin_info_dict.weight_dict, joint_indices, 0))]
        ELSE s2

get_vertices_influenced_by(s, joints, return_full_vertex_name, return_numbers) ==
    Only({IF s1.raised # "" THEN s1
          ELSE ListInfluenced(s1, return_full_vertex_name, return_numbers)
          : s1 \in {CollectIndices(s, IF joints.kind = "list" THEN joints.val
                                      ELSE <<joints.val>>, << >>)}})

\* for vertex in influenced_vertices: the list of the vertex is changed in
\* place, its source entry before its target entry
RECURSIVE MoveLoop(_, _, _, _)
MoveLoop(s, influenced_vertices, source_index, target_index) ==
    IF influenced_vertices = << >> THEN s
    ELSE LET key == Str(Head(influenced_vertices))
             weights_list_for_this_vertex == s.skin_info_dict.weight_dict[key]
         IN  IF source_index >= Len(weights_list_for_this_vertex)
             THEN Raise(s, "IndexError")
             ELSE LET weight_value_to_transfer ==
                          weights_list_for_this_vertex[source_index + 1]
                  IN  Only({IF target_index >= Len(weights_list_for_this_vertex)
                            THEN Raise(s1, "IndexError")
                            ELSE Only({MoveLoop(s2, Tail(influenced_vertices),
                                                source_index, target_index)
                                       : s2 \in {[s1 EXCEPT
                                            !.skin_info_dict.weight_dict[key][target_index + 1]
                                                = weight_value_to_transfer]}})
                            : s1 \in {[s EXCEPT
                                !.skin_info_dict.weight_dict[key][source_index + 1] = Zero]}})

\* move_weights_to_other_joint(source_joint, target_joint) up to its commit
MoveInStore(s, source_joint, target_joint) ==
    Only({IF s1.raised # "" THEN s1 ELSE
          Only({IF s2.raised # "" THEN s2 ELSE
                Only({IF s3.raised # "" THEN s3
                      ELSE MoveLoop([s3 EXCEPT !.returned = NoReturn], s1.returned.val,
                                    s2.returned.val, s3.returned.val)
                      : s3 \in {get_index_of_joint([s2 EXCEPT !.returned = NoReturn],
                                                   target_joint)}})
                : s2 \in {get_index_of_joint([s1 EXCEPT !.returned = NoReturn],
                                             source_joint)}})
          : s1 \in {get_vertices_influenced_by(s, OneJoint(source_joint), FALSE, TRUE)}})

\* use_selected_components=False
move_weights_to_other_joint(s, source_joint, target_joint) ==
    Only({IF s1.raised # "" THEN s1
          ELSE Only({set_weights(s1, weights_list, TRUE)
                     : weights_list \in {get_complete_weights_list(s1)}})
          : s1 \in {MoveInStore(s, source_joint, target_joint)}})

GetVerticesInfluencedBy(joints, return_full_vertex_name, return_numbers) ==
    /\ constructed
    /\ \E s \in {get_vertices_influenced_by(Current, joints, return_full_vertex_name,
                                             return_numbers)} :
            Becomes(s, "get_vertices_influenced_by")
    /\ UNCHANGED <<normvars, placevars, arguments, scene_joints, constructed, file>>

MoveWeightsToOtherJoint(source_joint, target_joint) ==
    /\ constructed
    /\ \E s \in {move_weights_to_other_joint(Current, source_joint, target_joint)} :
            Becomes(s, "move_weights_to_other_joint")
    /\ UNCHANGED <<normvars, placevars, arguments, scene_joints, constructed, file>>

\* the store with its influence operations: a mesh is bound, a SkinInfo made
\* for it, weights edited and committed, influences queried and moved
NextMove ==
    \/ \E js \in JointLists : HostBind(js)
    \/ Construct
    \/ \E v \in EditedVertices, wl \in WeightLists : SetWeightsListOfVertex(v, wl)
    \/ \E normalize_flag \in BOOLEAN : SetWeights(normalize_flag)
    \/ \E joints \in JointArguments, return_full_vertex_name, return_numbers \in BOOLEAN :
            GetVerticesInfluencedBy(joints, return_full_vertex_name, return_numbers)
    \/ \E source_joint, target_joint \in Joints :
            MoveWeightsToOtherJoint(source_joint, target_joint)

SpecMove == Init /\ [][NextMove]_vars

\* ----------------------------------------------- specification: normalize
NormGrid == {Rat(n, NormDen) : n \in 0..NormMaxNum}

NormInputs == UNION {[1..n -> NormGrid] : n \in 1..NormMaxLen}

InitNorm ==
    /\ nz_values \in NormInputs
    /\ nz_index \in 0..(NormMaxLen - 1)
    /\ nz_index < Len(nz_values)
    /\ nz_result = << >>
    /\ nz_returned = FALSE
    /\ StoreInit
    /\ PlaceIdle
    /\ first_clicked_mesh = ""
    /\ arguments = NoArguments

CallNormalize ==
    /\ ~nz_returned
    /\ nz_result' = normalize(nz_values, nz_index)
    /\ nz_returned' = TRUE
    /\ UNCHANGED <<nz_values, nz_index, hostvars, selfvars, file, last_call, raised,
                   returned, host_log, placevars, arguments>>

NextNorm == CallNormalize

SpecNorm == InitNorm /\ [][NextNorm]_vars

\* ----------------------------------------- specification: joint placement
\* the visible meshes of the scene, the target_meshes of a session
Meshes == {"meshA", "meshB"}

\* post_creation_func: None, a function that returns, one that raises
Callbacks == {"None", "returns", "raises"}

Reverse(list) == [i \in 1..Len(list) |-> list[Len(list) + 1 - i]]

\* the part of the state a placement handler does not touch
PlaceFrame ==
    UNCHANGED <<normvars, hostvars, selfvars, file, returned, arguments>>

\* enter_joint_placement(post_creation_func)
EnterJointPlacement(func) ==
    /\ session < MaxSessions
    /\ placed_joints' = << >>
    /\ first_clicked_mesh' = ""
    /\ post_creation_func' = func
    /\ tool_active' = TRUE
    /\ session' = session + 1
    /\ last_call' = "enter_joint_placement"
    /\ raised' = ""
    /\ host_log' = << >>
    /\ UNCHANGED <<chains, handed>>
    /\ PlaceFrame

\* joint = pm.createNode("joint") and its translation
NewJoint(hit, modifier) ==
    [session |-> session,
     number |-> Len(placed_joints) + 1,
     translation |->
        IF modifier = "shift"
        THEN IF Len(placed_joints) > 0 THEN "above previous" ELSE "origin"
        ELSE hit]

PlaceJointLeft_creates_first(hit, modifier) ==
    /\ tool_active
    /\ Len(placed_joints) < MaxPlaced
    /\ last_call' = "place_joint 1"
    /\ IF hit = ""
       THEN /\ raised' = "IndexError"
            /\ host_log' = <<HostCall("createNode", NewJoint(hit, modifier))>>
            /\ UNCHANGED placevars
       ELSE /\ raised' = ""
            /\ first_clicked_mesh' =
                    IF first_clicked_mesh = "" THEN hit ELSE first_clicked_mesh
            /\ host_log' = <<HostCall("createNode", NewJoint(hit, modifier))>>
            /\ placed_joints' = Append(placed_joints, NewJoint(hit, modifier))
            /\ UNCHANGED <<post_creation_func, tool_active, session, chains, handed>>
    /\ PlaceFrame

\* place_joint on a release of the left button: hit is the mesh closest to
\* the camera under the cursor, "" when the ray hits no mesh
PlaceJointLeft(hit, modifier) ==
    /\ tool_active
    /\ Len(placed_joints) < MaxPlaced
    /\ last_call' = "place_joint 1"
    /\ IF hit = ""
       THEN /\ raised' = "IndexError"
            /\ host_log' = << >>
            /\ UNCHANGED placevars
       ELSE /\ raised' = ""
            /\ first_clicked_mesh' =
                    IF first_clicked_mesh = "" THEN hit ELSE first_clicked_mesh
            /\ host_log' = <<HostCall("createNode", NewJoint(hit, modifier))>>
            /\ placed_joints' = Append(placed_joints, NewJoint(hit, modifier))
            /\ UNCHANGED <<post_creation_func, tool_active, session, chains, handed>>
    /\ PlaceFrame

ParentLoop_parents_the_next(list) ==
    [index \in 1..(Len(list) - 1) |->
        HostCall("parent", [child |-> list[index + 1], parent |-> list[index]])]

\* for index, joint in enumerate(placed_joints): the calls
\* pm.parent(child_joint, parent_joint) made over the list as it is then
ParentLoop(list) ==
    [index \in 1..(Len(list) - 1) |->
        HostCall("parent", [child |-> list[index], parent |-> list[index + 1]])]

PlaceJointMiddle_without_try ==
    /\ tool_active
    /\ session < MaxSessions
    /\ last_call' = "place_joint 2"
    /\ IF placed_joints = << >>
       THEN /\ raised' = "IndexError"
            /\ host_log' = << >>
            /\ UNCHANGED placevars
       ELSE /\ chains' = Append(chains, Reverse(placed_joints))
            /\ host_log' = ParentLoop(Reverse(placed_joints))
            /\ IF post_creation_func = "raises"
               THEN /\ raised' = "Exception"
                    /\ handed' = <<Reverse(placed_joints), first_clicked_mesh>>
                    /\ placed_joints' = Reverse(placed_joints)
                    /\ UNCHANGED <<first_clicked_mesh, session>>
               ELSE /\ raised' = ""
                    /\ handed' = IF post_creation_func = "None" THEN handed
                                 ELSE <<Reverse(placed_joints), first_clicked_mesh>>
                    /\ placed_joints' = << >>
                    /\ first_clicked_mesh' = ""
                    /\ session' = session + 1
            /\ UNCHANGED <<post_creation_func, tool_active>>
    /\ PlaceFrame

\* place_joint on a release of the middle button: the placed joints are
\* reversed and parented into a chain, the callback is called inside
\* try/except, and the list and the option variable are reset
PlaceJointMiddle ==
    /\ tool_active
    /\ session < MaxSessions
    /\ last_call' = "place_joint 2"
    /\ IF placed_joints = << >>
       THEN \* placed_joints[-1] of the empty list
            /\ raised' = "IndexError"
            /\ host_log' = << >>
            /\ UNCHANGED placevars
       ELSE /\ raised' = ""
            /\ chains' = Append(chains, Reverse(placed_joints))
            /\ host_log' = ParentLoop(Reverse(placed_joints))
            /\ handed' = IF post_creation_func = "None" THEN handed
                         ELSE <<Reverse(placed_joints), first_clicked_mesh>>
            /\ placed_joints' = << >>
            /\ first_clicked_mesh' = ""
            /\ session' = session + 1
            /\ UNCHANGED <<post_creation_func, tool_active>>
    /\ PlaceFrame

\* place_joint on a release of any other button does nothing
PlaceJointOther ==
    /\ tool_active
    /\ last_call' = "place_joint 3"
    /\ raised' = ""
    /\ host_log' = << >>
    /\ UNCHANGED placevars
    /\ PlaceFrame

\* the option variable is kept by the host from one run to the next, so
\* the first session may find any value in it
InitPlace ==
    /\ StoreInitNorm
    /\ StoreInit
    /\ PlaceIdle
    /\ first_clicked_mesh \in Meshes \cup {""}
    /\ arguments = NoArguments

NextPlace ==
    \/ \E func \in Callbacks : EnterJointPlacement(func)
    \/ \E hit \in Meshes \cup {""}, modifier \in {"none", "shift"} :
            PlaceJointLeft(hit, modifier)
    \/ PlaceJointMiddle
    \/ PlaceJointOther

SpecPlace == InitPlace /\ [][NextPlace]_vars

\* ----------------------------------------- specification: general.pynode
\* the state left of the store and of joint placement while a function of
\* general.py or decorators.py is called
Elsewhere ==
    /\ StoreInitNorm /\ StoreInit /\ PlaceIdle /\ first_clicked_mesh = ""

ElsewhereUnchanged ==
    UNCHANGED <<normvars, hostvars, selfvars, file, host_log, placevars, arguments>>

\* the DAG paths under which nodes named "x" can exist, str(node), with
\* their len()
PathTable == <<"a|x", "b|c|x", "d|x", "e|f|g|x", "h|i|x">>
PathLen(path) ==
    CASE path = "a|x" -> 3
      [] path = "b|c|x" -> 5
      [] path = "d|x" -> 3
      [] path = "e|f|g|x" -> 7
      [] path = "h|i|x" -> 5

Paths == {PathTable[i] : i \in 1..MaxCandidates}

\* the lists without repetition over a set
ListsOver(S) ==
    {l \in UNION {[1..n -> S] : n \in 0..Cardinality(S)} :
        \A a, b \in 1..Len(l) : a # b => l[a] # l[b]}

\* list[i] and list[-1] of Python: i counts from 0, and from the end when
\* negative
InRange(list, i) == -Len(list) <= i /\ i < Len(list)
Item(list, i) == IF i >= 0 THEN list[i + 1] ELSE list[Len(list) + i + 1]

\* sorted(list, key=len): stable, so equally long paths keep their order
RECURSIVE SortedByLen(_)
SortedByLen(list) ==
    IF list = << >> THEN << >>
    ELSE LET front == SortedByLen(SubSeq(list, 1, Len(list) - 1))
             x == list[Len(list)]
             before == SelectSeq(front, LAMBDA y : PathLen(y) <= PathLen(x))
             after == SelectSeq(front, LAMBDA y : PathLen(y) > PathLen(x))
         IN  before \o <<x>> \o after

ReturnNode(path) == [kind |-> "PyNode", val |-> path]

\* what a call ends with: the exception raised and its message, or the
\* value returned
Outcome(exception, message, value) ==
    [raised |-> exception, message |-> message, returned |-> value]

pynode_unsorted(a) ==
    IF a.scene = << >>
    THEN Outcome("RuntimeError", << >>, NoReturn)
    ELSE IF Len(a.scene) = 1
    THEN Outcome("", << >>, ReturnNode(a.scene[1]))
    ELSE
    LET multiple_nodes == a.scene
    IN  IF ~a.specific_on_multiple
        THEN Outcome("RuntimeError", multiple_nodes, NoReturn)
        ELSE IF a.pick_most_root
        THEN Outcome("", << >>, ReturnNode(Item(multiple_nodes, 0)))
        ELSE IF a.pick_most_leaf
        THEN Outcome("", << >>, ReturnNode(Item(multiple_nodes, -1)))
        ELSE IF a.pick_index # NoReturn
        THEN IF InRange(multiple_nodes, a.pick_index.val)
             THEN Outcome("", << >>, ReturnNode(Item(multiple_nodes, a.pick_index.val)))
             ELSE Outcome("IndexError", << >>, NoReturn)
        ELSE Outcome("RuntimeError", << >>, NoReturn)

\* pynode(object_name, ...): a.scene lists the nodes named object_name, in
\* the order of pm.ls; pm.PyNode(object_name) succeeds when there is one
pynode(a) ==
    IF a.scene = << >>
    THEN Outcome("RuntimeError", << >>, NoReturn)
    ELSE IF Len(a.scene) = 1
    THEN Outcome("", << >>, ReturnNode(a.scene[1]))
    ELSE
    LET multiple_nodes == SortedByLen(a.scene)
    IN  IF ~a.specific_on_multiple
        THEN Outcome("RuntimeError", multiple_nodes, NoReturn)
        ELSE IF a.pick_most_root
        THEN Outcome("", << >>, ReturnNode(Item(multiple_nodes, 0)))
        ELSE IF a.pick_most_leaf
        THEN Outcome("", << >>, ReturnNode(Item(multiple_nodes, -1)))
        ELSE IF a.pick_index # NoReturn
        THEN IF InRange(multiple_nodes, a.pick_index.val)
             THEN Outcome("", << >>, ReturnNode(Item(multiple_nodes, a.pick_index.val)))
             ELSE Outcome("IndexError", << >>, NoReturn)
        ELSE Outcome("RuntimeError", << >>, NoReturn)

PynodeInputs ==
    [function : {"pynode"},
     scene : ListsOver(Paths),
     specific_on_multiple : BOOLEAN,
     pick_most_root : BOOLEAN,
     pick_most_leaf : BOOLEAN,
     pick_index : {NoReturn} \cup {ReturnInt(i) : i \in -(MaxCandidates + 1)..MaxCandidates}]

InitPynode == Elsewhere /\ arguments \in PynodeInputs

CallPynode ==
    /\ last_call = ""
    /\ last_call' = "pynode"
    /\ raised' = pynode(arguments).raised
    /\ returned' = pynode(arguments).returned
    /\ ElsewhereUnchanged

NextPynode == CallPynode

SpecPynode == InitPynode /\ [][NextPynode]_vars

\* --------------------------------- specification: general.is_empty_group
\* A node of the hierarchy is a group (a transform without shape node, which
\* is what is_group tests) with its children in the order of getChildren(),
\* or any other node (a mesh, a joint, a locator), whose children the
\* function never looks at.
OtherNode == [kind |-> "other", children |-> << >>]
Group(children) == [kind |-> "group", children |-> children]

ChildLists(S) == UNION {[1..n -> S] : n \in 0..MaxChildren}

\* the hierarchies of depth at most 1 and at most 2
Level1 == {OtherNode} \cup {Group(c) : c \in ChildLists({OtherNode, Group(<< >>)})}
Level2 == {OtherNode} \cup {Group(c) : c \in ChildLists(Level1)}

is_group(node) == node.kind = "group"

ReturnBool(b) == [kind |-> "bool", val |-> b]

RECURSIVE is_empty_group(_, _)
RECURSIVE EmptyGroupLoop(_, _, _)
\* the for loop of is_empty_group from child number i on, is_empty being
\* the value of the variable when it gets there
EmptyGroupLoop(children, i, is_empty) ==
    IF i > Len(children) THEN is_empty
    ELSE IF ~is_group(children[i]) THEN FALSE
    ELSE EmptyGroupLoop(children, i + 1, is_empty_group(children[i], TRUE))

is_empty_group(group_node, include_empty_child_groups) ==
    IF ~is_group(group_node) THEN FALSE
    ELSE IF include_empty_child_groups
    THEN EmptyGroupLoop(group_node.children, 1, TRUE)
    ELSE Len(group_node.children) = 0

EmptyGroupInputs ==
    [function : {"is_empty_group"},
     group_node : Level2,
     include_empty_child_groups : BOOLEAN]

InitEmptyGroup == Elsewhere /\ arguments \in EmptyGroupInputs

CallIsEmptyGroup ==
    /\ last_call = ""
    /\ last_call' = "is_empty_group"
    /\ raised' = ""
    /\ returned' = ReturnBool(is_empty_group(arguments.group_node,
                                             arguments.include_empty_child_groups))
    /\ ElsewhereUnchanged

NextEmptyGroup == CallIsEmptyGroup

SpecEmptyGroup == InitEmptyGroup /\ [][NextEmptyGroup]_vars

\* ------------------- specification: general.get_all_inputs / get_all_outputs
\* The connection graph: connections[<<a, b>>] means an output of node a is
\* connected to an input of node b.
Nodes == 1..GraphNodes
Connections == SUBSET {c \in Nodes \X Nodes : c[1] # c[2]}

\* source.inputs() and source.outputs()
inputs(connections, source) == {n \in Nodes : <<n, source>> \in connections}
outputs(connections, source) == {n \in Nodes : <<source, n>> \in connections}

ReturnSet(S) == [kind |-> "list(set)", val |-> S]

\* A chain of nested calls longer than the number of nodes has come back to
\* a node it started from and goes on until Python raises RecursionError.
RECURSIVE get_all_inputs(_, _, _)
get_all_inputs(connections, source, depth) ==
    IF depth > GraphNodes THEN Outcome("RecursionError", << >>, NoReturn)
    ELSE LET below == [n \in inputs(connections, source) |->
                            get_all_inputs(connections, n, depth + 1)]
         IN  IF \E n \in DOMAIN below : below[n].raised # ""
             THEN Outcome("RecursionError", << >>, NoReturn)
             ELSE Outcome("", << >>,
                    ReturnSet(inputs(connections, source)
                              \cup UNION {below[n].returned.val : n \in DOMAIN below}))

\* the nested calls of get_all_outputs are calls of get_all_inputs
get_all_outputs(connections, source) ==
    LET below == [n \in outputs(connections, source) |->
                        get_all_inputs(connections, n, 2)]
    IN  IF \E n \in DOMAIN below : below[n].raised # ""
        THEN Outcome("RecursionError", << >>, NoReturn)
        ELSE Outcome("", << >>,
                ReturnSet(outputs(connections, source)
                          \cup UNION {below[n].returned.val : n \in DOMAIN below}))

GraphInputs ==
    [function : {"get_all_inputs", "get_all_outputs"},
     connections : Connections,
     source : Nodes]

InitGraph == Elsewhere /\ arguments \in GraphInputs

CallGetAllInputs ==
    /\ last_call = ""
    /\ arguments.function = "get_all_inputs"
    /\ last_call' = "get_all_inputs"
    /\ raised' = get_all_inputs(arguments.connections, arguments.source, 1).raised
    /\ returned' = get_all_inputs(arguments.connections, arguments.source, 1).returned
    /\ ElsewhereUnchanged

CallGetAllOutputs ==
    /\ last_call = ""
    /\ arguments.function = "get_all_outputs"
    /\ last_call' = "get_all_outputs"
    /\ raised' = get_all_outputs(arguments.connections, arguments.source).raised
    /\ returned' = get_all_outputs(arguments.connections, arguments.source).returned
    /\ ElsewhereUnchanged

NextGraph == CallGetAllInputs \/ CallGetAllOutputs

SpecGraph == InitGraph /\ [][NextGraph]_vars

\* ----------------------------------- specification: decorators.ListNewNodes
\* new_node.name() of the nodes a block can create; pymel names its undo
\* nodes "__pymelUndoNode", and the host adds a number to a name in use
NameTable == <<"__pymelUndoNode", "pCube1", "__pymelUndoNode1", "joint1", "locator1">>
NewNames == {NameTable[i] : i \in 1..MaxNew}
is_pymel_undo_node(name) == name \in {"__pymelUndoNode", "__pymelUndoNode1"}

\* pm.ls() before the block
SceneBefore == <<"persp">>

\* lists.difference([a, b]) of the utils package: the items found in only
\* one of the two lists, here in the order pm.ls() lists them
difference(a, b) ==
    SelectSeq(a, LAMBDA n : n \notin Range(b)) \o SelectSeq(b, LAMBDA n : n \notin Range(a))

\* list.remove(x): drops the first item equal to x
RECURSIVE remove(_, _)
remove(list, x) ==
    IF list = << >> THEN << >>
    ELSE IF Head(list) = x THEN Tail(list)
    ELSE <<Head(list)>> \o remove(Tail(list), x)

\* for new_node in new_nodes: ... new_nodes.remove(new_node)
\* The iterator holds a position in the list it iterates (i counts from 1
\* here) and moves on by one after every item, removed or not.
RECURSIVE RemoveUndoNodes(_, _)
RemoveUndoNodes(new_nodes, i) ==
    IF i > Len(new_nodes) THEN new_nodes
    ELSE IF is_pymel_undo_node(new_nodes[i])
         THEN RemoveUndoNodes(remove(new_nodes, new_nodes[i]), i + 1)
         ELSE RemoveUndoNodes(new_nodes, i + 1)

ListNewNodesObject(existing_nodes, result) ==
    [kind |-> "ListNewNodes", existing_nodes |-> existing_nodes, result |-> result]

\* arguments.created: the nodes the block creates, in the order pm.ls()
\* lists them afterwards
ListNewNodesInputs ==
    [function : {"ListNewNodes"}, created : ListsOver(NewNames)]

InitListNewNodes == Elsewhere /\ arguments \in ListNewNodesInputs

ListNewNodesEnter ==
    /\ last_call = ""
    /\ arguments.function = "ListNewNodes"
    /\ last_call' = "__enter__"
    /\ raised' = ""
    /\ returned' = ListNewNodesObject(SceneBefore, NoReturn)
    /\ ElsewhereUnchanged

ListNewNodesExit ==
    /\ last_call = "__enter__"
    /\ LET post_scene_nodes == SceneBefore \o arguments.created
           new_nodes == difference(returned.existing_nodes, post_scene_nodes)
       IN  returned' = ListNewNodesObject(returned.existing_nodes,
                          ReturnList(RemoveUndoNodes(new_nodes, 1)))
    /\ last_call' = "__exit__"
    /\ raised' = ""
    /\ ElsewhereUnchanged

NextListNewNodes == ListNewNodesEnter \/ ListNewNodesExit

SpecListNewNodes == InitListNewNodes /\ [][NextListNewNodes]_vars

\* ------------------------------------------------------ claims: normalize
fixed == nz_values[nz_index + 1]
other_total == RSub(RSum(nz_values), fixed)
NonFixed == (1..Len(nz_values)) \ {nz_index + 1}

\* C1: normalize(v, k) returns a list as long as v whose entry k is v[k]
\* exactly, whichever branch (other_total # 0 or other_total = 0) is taken.
C1_FixedEntryUnaltered ==
    nz_returned =>
        /\ Len(nz_result) = Len(nz_values)
        /\ nz_result[nz_index + 1] = fixed

\* a call that rescaled the other entries of a 3-entry vector
C1_Witness ==
    /\ nz_returned
    /\ Len(nz_values) = 3
    /\ other_total # Zero
    /\ fixed # Zero
    /\ \A i \in NonFixed : nz_result[i] # nz_values[i]

\* C2: when sum(v) - v[k] # 0 the entries of normalize(v, k) sum to 1;
\* [0.3, 1.4] with k = 0 gives [0.3, 0.7] and [0.3, 0.7] with k = 0 is
\* returned unchanged.
C2_SumsToOne ==
    nz_returned =>
        /\ other_total # Zero => RSum(nz_result) = One
        /\ (nz_values = <<Rat(3, 10), Rat(14, 10)>> /\ nz_index = 0)
                => nz_result = <<Rat(3, 10), Rat(7, 10)>>
        /\ (nz_values = <<Rat(3, 10), Rat(7, 10)>> /\ nz_index = 0)
                => nz_result = nz_values

\* the over-total example has been normalized
C2_Witness ==
    /\ nz_returned
    /\ nz_values = <<Rat(3, 10), Rat(14, 10)>>
    /\ nz_index = 0
    /\ nz_result = <<Rat(3, 10), Rat(7, 10)>>

C4_SameFactor ==
    (nz_returned /\ other_total # Zero) =>
        /\ \A i \in NonFixed :
                RMul(nz_result[i], other_total) = RMul(nz_values[i], RSub(One, fixed))
        /\ \A i, j \in NonFixed :
                RMul(nz_result[i], nz_values[j]) = RMul(nz_result[j], nz_values[i])

\* two different non-zero entries were rescaled by a factor other than 1
C4_Witness ==
    /\ nz_returned
    /\ other_total # Zero
    /\ other_total # RSub(One, fixed)
    /\ fixed # One
    /\ \E i, j \in NonFixed :
            /\ nz_values[i] # Zero
            /\ nz_values[j] # Zero
            /\ nz_values[i] # nz_values[j]
            /\ nz_result[i] # nz_values[i]

\* C5 as claimed: for every weight vector with non-negative entries, every
\* entry of normalize(v, k) is non-negative.
C5_ResultNonNegative ==
    nz_returned => \A i \in 1..Len(nz_result) : RLeq(Zero, nz_result[i])

\* C5 as amended: for every weight vector with non-negative entries whose
\* fixed entry v[k] is at most 1, every entry of normalize(v, k) is
\* non-negative.
C5_ResultNonNegativeWhenFixedAtMostOne ==
    (nz_returned /\ RLeq(fixed, One)) =>
        \A i \in 1..Len(nz_result) : RLeq(Zero, nz_result[i])

\* a vector with a fixed entry below 1 was rescaled
C5_Witness ==
    /\ nz_returned
    /\ RLess(fixed, One)
    /\ other_total # Zero
    /\ \E i \in NonFixed : nz_result[i] # nz_values[i] /\ RLess(Zero, nz_result[i])

\* ------------------------------------------------------- claims: SkinInfo
StoredRows == skin_info_dict.weight_dict

\* the snapshot a load with this binary flag reads from the file
Readable(binary) == file.kind = (IF binary THEN "pickle" ELSE "json")
Snapshot(binary) == IF binary THEN read_pickle(file) ELSE read_json(file)

\* C6: set_weights_list_of_vertex(vertex, weight_list) reports an error and
\* leaves the stored mapping unchanged when len(weight_list) differs from
\* the current number of influences.
C6_WrongLengthRejected ==
    [][\A v \in EditedVertices, wl \in WeightLists :
            (Len(wl) # Len(influence_list) /\ SetWeightsListOfVertex(v, wl))
                => (raised' # "" /\ skin_info_dict' = skin_info_dict)]_vars

C8_RowsMatchInfluenceList ==
    (constructed /\ HasKey(skin_info_dict, "weight_dict")) =>
        \A k \in DOMAIN StoredRows : Len(StoredRows[k]) = Len(influence_list)

\* the weight vectors the store and the binding hold after a load are those
\* of the snapshot it read
RestoredFrom(snapshot) ==
    \A v \in Vertices :
        /\ HasKey(skin_info_dict', "weight_dict")
        /\ skin_info_dict'.weight_dict[Str(v)] = snapshot.weight_dict[Str(v)]
        /\ sc_weights'[v] = snapshot.weight_dict[Str(v)]

\* the mesh is as it was when the snapshot was saved: bound by the skin
\* cluster the store holds, to the snapshot's influences in the same order
SameBinding(snapshot) ==
    /\ HasKey(snapshot, "influence_names")
    /\ skin_cluster = "live"
    /\ sc_influences = snapshot.influence_names

\* the mesh has been detached since the snapshot was saved, as
\* reinitialize_skinning does between its save and its load, and the
\* snapshot's influences are all still in the scene
Detached(snapshot) ==
    /\ HasKey(snapshot, "influence_names")
    /\ ~sc_bound
    /\ snapshot.influence_names # << >>
    /\ Range(snapshot.influence_names) \subseteq scene_joints

\* every weight vector of the snapshot has one entry per influence and sums
\* to 1
NormalizedSnapshot(snapshot) ==
    /\ HasKey(snapshot, "weight_dict")
    /\ \A v \in Vertices :
            /\ Len(snapshot.weight_dict[Str(v)]) = Len(snapshot.influence_names)
            /\ RSum(snapshot.weight_dict[Str(v)]) = One

C10_FailedLoadLeavesBinding ==
    [][\A binary \in BOOLEAN :
            (/\ Readable(binary)
             /\ HasKey(Snapshot(binary), "influence_names")
             /\ ~(Range(Snapshot(binary).influence_names) \subseteq scene_joints)
             /\ LoadSkinFromFile(binary))
            => /\ raised' # ""
               /\ sc_bound' = sc_bound
               /\ sc_influences' = sc_influences
               /\ sc_weights' = sc_weights]_vars

\* the names of the host calls logged, in order
Ops(log) == [i \in 1..Len(log) |-> log[i].op]

\* the influence names of a snapshot, None when it has none
InfluenceNames(snapshot) ==
    IF HasKey(snapshot, "influence_names") THEN snapshot.influence_names ELSE << >>

\* every write of weights in the log comes after an unbind and, after that,
\* a bind to the names
RebuiltBeforeWeights(log, names) ==
    \A w \in 1..Len(log) :
        log[w].op = "setWeights" =>
            \E u, b \in 1..Len(log) :
                /\ u < b /\ b < w
                /\ log[u].op = "unbind"
                /\ log[b].op = "bind" /\ log[b].arg = names

\* C11: when the mesh's influence names differ from the snapshot's at
\* load_skin_from_file, the binding is unbound and re-created before any
\* weight is written, and when the call returns the binding's influence
\* names are the snapshot's, in the same order.
C11_RebuiltFromSnapshotNames ==
    [][\A binary \in BOOLEAN :
            (/\ Readable(binary)
             /\ sc_bound
             /\ sc_influences # InfluenceNames(Snapshot(binary))
             /\ LoadSkinFromFile(binary))
            => /\ RebuiltBeforeWeights(host_log', InfluenceNames(Snapshot(binary)))
               /\ raised' = "" =>
                    /\ sc_bound'
                    /\ sc_influences' = InfluenceNames(Snapshot(binary))
                    /\ "setWeights" \in Range(Ops(host_log'))]_vars

\* a load has returned after it unbound the mesh, bound it to the two names
\* of its JSON snapshot and then wrote the weights
C11_Witness ==
    /\ last_call = "load_skin_from_file"
    /\ raised = ""
    /\ file.kind = "json"
    /\ Ops(host_log) = <<"load_skin_from_file", "unbind", "load_skin_from_file",
                         "bind", "setWeights", "forceNormalizeWeights",
                         "setWeights", "forceNormalizeWeights">>
    /\ sc_influences = read_json(file).influence_names
    /\ Len(sc_influences) = 2

\* the number of times load_skin_from_file was entered during the last call
Entered == Cardinality({i \in 1..Len(host_log) : host_log[i].op = "load_skin_from_file"})

\* C12: load_skin_from_file always finishes, for every snapshot and every
\* mesh state, a snapshot saved from an unbound mesh included: it calls
\* itself at most once, after an influence-order mismatch.
C12_ReentersAtMostOnce ==
    last_call = "load_skin_from_file" => (Entered <= 2 /\ raised # "RecursionError")

\* C13: when the mesh has no binding at load_skin_from_file, a binding is
\* created whose influences are exactly the snapshot's influence names in
\* the same order, and the snapshot's weights are then written to it.
C13_UnboundMeshGetsSnapshotBinding ==
    [][\A binary \in BOOLEAN :
            (/\ Readable(binary)
             /\ ~sc_bound
             /\ InfluenceNames(Snapshot(binary)) # << >>
             /\ Range(InfluenceNames(Snapshot(binary))) \subseteq scene_joints
             /\ LoadSkinFromFile(binary))
            => /\ sc_bound'
               /\ sc_influences' = InfluenceNames(Snapshot(binary))
               /\ \E b, w \in 1..Len(host_log') :
                    /\ b < w
                    /\ host_log'[b].op = "bind"
                    /\ host_log'[w].op = "setWeights"]_vars

\* --------------------------------------------------- claims: store queries
\* get_index_of_joint(joint) called in the current state
IndexCall(joint) == get_index_of_joint(Current, joint)

\* C14: get_index_of_joint is idempotent: a call that returns an index, the
\* influence having been registered by it or not, is followed by the same
\* index from the next call with the same influence, and that index stays
\* the answer across every step that leaves the binding's influence list
\* as it is.
C14_SameIndexOnRepeat ==
    [][\A j \in Joints :
            /\ (GetIndexOfJoint(j) /\ raised' = "") =>
                    /\ returned' = ReturnInt(IndexOf(sc_influences', j))
                    /\ IndexCall(j)'.raised = ""
                    /\ IndexCall(j)'.returned = returned'
            /\ (/\ sc_influences' = sc_influences
                /\ j \in Range(sc_influences)
                /\ IndexCall(j).raised = "") =>
                    /\ IndexCall(j)'.raised = ""
                    /\ IndexCall(j)'.returned = IndexCall(j).returned]_vars

\* get_index_of_joint has returned index 1 for a joint it had to register
C14_Witness ==
    /\ last_call = "get_index_of_joint"
    /\ raised = ""
    /\ Ops(host_log) = <<"addInfluence", "setAttr liw">>
    /\ returned = ReturnInt(1)
    /\ sc_influences[2] = host_log[1].arg

\* the joint is the last influence of the binding, with weight 0 on every
\* vertex, after the step
RegisteredWithZero(j) ==
    /\ sc_influences' = Append(sc_influences, j)
    /\ \A v \in Vertices : sc_weights'[v] = Append(sc_weights[v], Zero)

\* C15 as claimed: when get_index_of_joint is called with an influence that
\* is not in the binding, the influence is registered with weight 0 on
\* every vertex and is locked (lockInfluenceWeights on) when the call
\* returns.
C15_RegisteredLocked ==
    [][\A j \in Joints :
            (/\ skin_cluster = "live"
             /\ j \in scene_joints
             /\ j \notin Range(sc_influences)
             /\ GetIndexOfJoint(j))
            => (raised' = "" /\ RegisteredWithZero(j) /\ j \in liw')]_vars

\* C15 as amended: the influence is registered with weight 0 on every
\* vertex; its lock is on only while it is added and is off when the call
\* returns.
C15_RegisteredUnlocked ==
    [][\A j \in Joints :
            (/\ skin_cluster = "live"
             /\ j \in scene_joints
             /\ j \notin Range(sc_influences)
             /\ GetIndexOfJoint(j))
            => /\ raised' = ""
               /\ RegisteredWithZero(j)
               /\ j \notin liw'
               /\ liw' = liw \ {j}
               /\ Ops(host_log') = <<"addInfluence", "setAttr liw">>]_vars

\* get_index_of_joint has registered joint2, which the user had locked, as
\* second influence with weight 0 and the other joint is still locked
C15_Witness ==
    /\ last_call = "get_index_of_joint"
    /\ raised = ""
    /\ host_log = <<HostCall("addInfluence", "joint2"), HostCall("setAttr liw", "joint2")>>
    /\ sc_influences = <<"joint1", "joint2">>
    /\ \A v \in Vertices : sc_weights[v][2] = Zero
    /\ liw = {"joint1"}

\* the flat list of the stored weights: position v*I + i (from 0) holds the
\* weight of vertex v for influence i
FlatWeights(I) ==
    [p \in 1..(NumVertices * I) |->
        Float(StoredRows[Str((p - 1) \div I)][((p - 1) % I) + 1])]

\* C16: for a store with V vertices and I >= 1 influences,
\* get_complete_weights_list returns a flat sequence of V*I numbers in which
\* position v*I + i holds the stored weight of vertex v for influence i,
\* vertices in ascending order.
C16_FlatByVertexThenInfluence ==
    (/\ last_call = "get_complete_weights_list"
     /\ raised = ""
     /\ Len(influence_list) >= 1
     /\ \A v \in Vertices : Len(StoredRows[Str(v)]) = Len(influence_list))
    => returned = ReturnList(FlatWeights(Len(influence_list)))

\* C17: for a mesh skinned to exactly one influence,
\* get_complete_weights_list returns a flat list with one number per vertex,
\* not a list of nested lists.
C17_OneInfluenceGivesFlatList ==
    (/\ last_call = "get_complete_weights_list"
     /\ raised = ""
     /\ sc_bound
     /\ Len(sc_influences) = 1
     /\ \A v \in Vertices : StoredRows[Str(v)] = sc_weights[v])
    => /\ Len(returned.val) = NumVertices
       /\ \A v \in Vertices : returned.val[v + 1] = Float(sc_weights[v][1])

\* C18: after set_weights returns, the store has been re-sampled from the
\* binding: get_weight_list_of_vertex returns, for every vertex, the vector
\* the binding holds after the write, and the store's influence list
\* matches the binding's.
C18_ResampledAfterCommit ==
    (last_call = "set_weights" /\ raised = "") =>
        /\ \A v \in Vertices :
                get_weight_list_of_vertex(Current, v).returned = ReturnList(sc_weights[v])
        /\ influence_list = [x \in 1..Len(sc_influences) |-> x - 1]
        /\ skin_info_dict.influence_list = influence_list
        /\ skin_info_dict.influence_names = sc_influences

\* set_weights has written the stored vector [1.0, 1.0] of vertex 0, the
\* host has normalized it and the store now reads [0.5, 0.5]
C18_Witness ==
    /\ last_call = "set_weights"
    /\ raised = ""
    /\ Ops(host_log) = <<"setWeights", "forceNormalizeWeights">>
    /\ host_log[1].arg[1] = Float(One)
    /\ host_log[1].arg[2] = Float(One)
    /\ sc_weights[0] = <<Rat(1, 2), Rat(1, 2)>>
    /\ StoredRows[Str(0)] = <<Rat(1, 2), Rat(1, 2)>>

\* the host calls a set_weights that returns makes, by its normalize flag
ForcesIffAsked(normalize_flag) ==
    Ops(host_log') = IF normalize_flag
                     THEN <<"setWeights", "forceNormalizeWeights">>
                     ELSE <<"setWeights">>

C20_SessionsDoNotLeak ==
    /\ \A i \in 1..Len(placed_joints) : placed_joints[i].session = session
    /\ last_call \in {"enter_joint_placement", "place_joint 2"} =>
            (placed_joints = << >> /\ first_clicked_mesh = "")

\* a finish whose post_creation_func raised has handed over a chain of two
\* joints and left the list and the option variable reset, in a session
\* after the first
C20_Witness ==
    /\ last_call = "place_joint 2"
    /\ raised = ""
    /\ post_creation_func = "raises"
    /\ Len(handed[1]) = 2
    /\ handed[2] \in Meshes
    /\ session = 3
    /\ Len(chains) = 2
    /\ placed_joints = << >>

\* ------------------------------------------------- claims: general.pynode
\* called with several nodes of the requested name in the scene
Ambiguous == last_call = "pynode" /\ Len(arguments.scene) > 1

\* the path is one of the shortest, or longest, of the candidates
Shortest(path) == \A q \in Range(arguments.scene) : PathLen(path) <= PathLen(q)
Longest(path) == \A q \in Range(arguments.scene) : PathLen(path) >= PathLen(q)

\* C21: when several scene nodes share the requested name, pynode raises an
\* error listing the candidates if specific_on_multiple is False; if it is
\* True it returns the candidate with the shortest path for pick_most_root,
\* the longest for pick_most_leaf, or the one at pick_index of the
\* length-sorted list (IndexError when out of range); when the name does
\* not exist it raises an error rather than returning None.
C21_PynodeDisambiguates ==
    /\ (Ambiguous /\ ~arguments.specific_on_multiple) =>
            /\ raised = "RuntimeError"
            /\ Range(pynode(arguments).message) = Range(arguments.scene)
            /\ Len(pynode(arguments).message) = Len(arguments.scene)
    /\ (Ambiguous /\ arguments.specific_on_multiple /\ arguments.pick_most_root) =>
            /\ raised = ""
            /\ returned.kind = "PyNode"
            /\ returned.val \in Range(arguments.scene)
            /\ Shortest(returned.val)
    /\ (/\ Ambiguous /\ arguments.specific_on_multiple
        /\ ~arguments.pick_most_root /\ arguments.pick_most_leaf) =>
            /\ raised = ""
            /\ returned.kind = "PyNode"
            /\ returned.val \in Range(arguments.scene)
            /\ Longest(returned.val)
    /\ (/\ Ambiguous /\ arguments.specific_on_multiple
        /\ ~arguments.pick_most_root /\ ~arguments.pick_most_leaf
        /\ arguments.pick_index # NoReturn) =>
            IF InRange(arguments.scene, arguments.pick_index.val)
            THEN /\ raised = ""
                 /\ returned =
                        ReturnNode(Item(SortedByLen(arguments.scene), arguments.pick_index.val))
            ELSE raised = "IndexError"
    /\ (last_call = "pynode" /\ arguments.scene = << >>) =>
            (raised # "" /\ returned = NoReturn)

\* pynode has returned, for pick_index 1, the second of three candidates
\* sorted by length, which pm.ls had listed last
C21_Witness ==
    /\ last_call = "pynode"
    /\ raised = ""
    /\ arguments.scene = <<"b|c|x", "a|x", "d|x">>
    /\ arguments.specific_on_multiple
    /\ ~arguments.pick_most_root /\ ~arguments.pick_most_leaf
    /\ arguments.pick_index = ReturnInt(1)
    /\ returned = ReturnNode("d|x")

\* ----------------------------------------- claims: general.is_empty_group
\* the node and every node below it is a group
RECURSIVE AllGroups(_)
AllGroups(node) ==
    /\ is_group(node)
    /\ \A i \in 1..Len(node.children) : AllGroups(node.children[i])

\* C22: is_empty_group(group, include_empty_child_groups=True) returns True
\* exactly when the node is a group and every descendant in its whole
\* hierarchy is itself a group, whatever the order of the children.
C22_EmptyIffOnlyGroupsBelow ==
    (last_call = "is_empty_group" /\ arguments.include_empty_child_groups) =>
        returned = ReturnBool(AllGroups(arguments.group_node))

\* -------------------------- claims: general.get_all_inputs / get_all_outputs
\* the nodes reached from the set S over one or more connections, followed
\* from output to input (downstream) or from input to output
Reached(connections, source, downstream) ==
    LET RECURSIVE grow(_)
        grow(R) ==
            LET more == R \cup {n \in Nodes : \E m \in R :
                            IF downstream THEN <<m, n>> \in connections
                            ELSE <<n, m>> \in connections}
            IN  IF more = R THEN R ELSE grow(more)
        first == IF downstream THEN outputs(connections, source)
                 ELSE inputs(connections, source)
    IN  grow(first)

\* C23: get_all_outputs(source) returns exactly the nodes reachable from
\* source by following output connections one or more times, and
\* get_all_inputs(source) the upstream closure; both finish on every finite
\* connection graph, one with cycles included.
C23_ClosuresOfConnections ==
    /\ last_call = "get_all_outputs" =>
            /\ raised = ""
            /\ returned = ReturnSet(Reached(arguments.connections, arguments.source, TRUE))
    /\ last_call = "get_all_inputs" =>
            /\ raised = ""
            /\ returned = ReturnSet(Reached(arguments.connections, arguments.source, FALSE))

\* ---------------------------------------------- claims: decorators.ListNewNodes
\* C24: after a ListNewNodes block exits, its result holds the nodes created
\* inside the block and no node whose name contains "__pymelUndoNode",
\* however many such nodes were created and wherever they sit in the list.
C24_ResultWithoutUndoNodes ==
    last_call = "__exit__" =>
        /\ \A n \in Range(returned.result.val) : ~is_pymel_undo_node(n)
        /\ Range(returned.result.val)
                = {n \in Range(arguments.created) : ~is_pymel_undo_node(n)}

\* ------------------------------------- claims: the store's influence operations
\* the weight of influence index i (from 0) in a stored list, 0 where the
\* list has no such entry
WeightAt(weights, i) == IF i < Len(weights) THEN weights[i + 1] ELSE Zero

\* C25: move_weights_to_other_joint(source, target) preserves every vertex's
\* weight sum: in the store before the commit, for each vertex with a source
\* weight above 0 the source weight is 0, the target weight is its previous
\* value plus the previous source weight, and every other weight is as before.
C25_MovePreservesSums ==
    [][\A source_joint, target_joint \in Joints :
        (/\ constructed
         /\ source_joint # target_joint
         /\ MoveInStore(Current, source_joint, target_joint).raised = ""
         /\ MoveWeightsToOtherJoint(source_joint, target_joint))
        => LET moved == MoveInStore(Current, source_joint, target_joint)
               source_index == IndexOf(moved.influences, source_joint)
               target_index == IndexOf(moved.influences, target_joint)
           IN  \A v \in Vertices :
                 LET old == skin_info_dict.weight_dict[Str(v)]
                     new == moved.skin_info_dict.weight_dict[Str(v)]
                 IN  RLess(Zero, WeightAt(old, source_index)) =>
                        /\ WeightAt(new, source_index) = Zero
                        /\ WeightAt(new, target_index)
                                = RAdd(WeightAt(old, target_index), WeightAt(old, source_index))
                        /\ \A i \in 0..(Len(moved.influences) - 1) :
                                i \notin {source_index, target_index}
                                    => WeightAt(new, i) = WeightAt(old, i)
                        /\ RSum(new) = RSum(old)]_vars

\* the list get_weight_list_of_vertex returns for a vertex
StoredList(v) == get_weight_list_of_vertex(Current, v).returned.val

\* C26: get_index_of_joint leaves uncommitted edits intact: the list stored
\* for a vertex before the call is still the one get_weight_list_of_vertex
\* returns after it, at the same influence indices, whether or not the
\* queried influence had to be registered.
C26_IndexQueryKeepsEdits ==
    [][\A joint \in Joints :
        (/\ constructed
         /\ HasKey(skin_info_dict, "weight_dict")
         /\ GetIndexOfJoint(joint)
         /\ raised' = "")
        => \A v \in Vertices :
                /\ Len(StoredList(v)') >= Len(StoredList(v))
                /\ \A i \in 1..Len(StoredList(v)) : StoredList(v)'[i] = StoredList(v)[i]]_vars

\* the vertices whose stored list holds a weight above 0 for one of the joints
InfluencedBy(joints) ==
    {v \in Vertices : \E c \in 1..Len(joints) :
        /\ joints[c] \in Range(sc_influences)
        /\ RLess(Zero, WeightAt(StoredList(v), IndexOf(sc_influences, joints[c])))}

\* C27: get_vertices_influenced_by(joints) returns each vertex that has a
\* weight above 0 for at least one of the given joints exactly once, and no
\* other vertex, also when several of the given joints influence a vertex.
C27_EachInfluencedVertexOnce ==
    [][\A joints \in JointArguments, return_full_vertex_name, return_numbers \in BOOLEAN :
        (/\ constructed
         /\ return_full_vertex_name \/ return_numbers
         /\ GetVerticesInfluencedBy(joints, return_full_vertex_name, return_numbers)
         /\ raised' = "")
        => /\ \A a, b \in 1..Len(returned'.val) :
                    a # b => returned'.val[a] # returned'.val[b]
           /\ LET influenced ==
                    InfluencedBy(IF joints.kind = "list" THEN joints.val ELSE <<joints.val>>)'
              IN  Range(returned'.val)
                    = IF return_full_vertex_name THEN {VtxName(v) : v \in influenced}
                      ELSE influenced]_vars

\* the joints a handler parented under joint j, and those it parented j under
ParentedUnder(log, j) ==
    {log[i].arg.child : i \in {c \in 1..Len(log) : log[c].op = "parent" /\ log[c].arg.parent = j}}
ParentsGiven(log, j) ==
    {log[i].arg.parent : i \in {c \in 1..Len(log) : log[c].op = "parent" /\ log[c].arg.child = j}}

\* C28: when a session in which joints j1..jn were placed in that order is
\* finished with the middle button, each joint j(k+1) is parented under j(k):
\* the first-placed joint is the root of a single chain, the last-placed its leaf.
C28_ChainInPlacementOrder ==
    [][(placed_joints # << >> /\ PlaceJointMiddle)
        => LET n == Len(placed_joints)
           IN  /\ \A k \in 1..(n - 1) :
                    /\ ParentsGiven(host_log', placed_joints[k + 1]) = {placed_joints[k]}
                    /\ ParentedUnder(host_log', placed_joints[k]) = {placed_joints[k + 1]}
               /\ ParentsGiven(host_log', placed_joints[1]) = {}
               /\ ParentedUnder(host_log', placed_joints[n]) = {}]_vars

C28_Witness ==
    /\ last_call = "place_joint 2"
    /\ raised = ""
    /\ Len(host_log) = MaxPlaced - 1
    /\ Len(host_log) > 0
    /\ \A i \in 1..Len(host_log) : host_log[i].op = "parent"

\* C29: a left-button release whose ray hits none of the target meshes
\* creates no joint and leaves placed_joints and
\* JointPlacer_FirstClickedMesh unchanged.
C29_MissChangesNothing ==
    [][\A modifier \in {"none", "shift"} :
        PlaceJointLeft("", modifier)
        => /\ \A i \in 1..Len(host_log') : host_log'[i].op # "createNode"
           /\ placed_joints' = placed_joints
           /\ first_clicked_mesh' = first_clicked_mesh]_vars

C29_Witness ==
    /\ last_call = "place_joint 1"
    /\ raised = "IndexError"
    /\ placed_joints # << >>
    /\ first_clicked_mesh # ""

====
